---- MODULE Spec2Model ----
(***************************************************************************)
(* Model of the foodgram backend (Django + Django REST framework):        *)
(* recipes with tags and ingredient rows, the favorite / shopping-cart    *)
(* toggles, subscriptions and the shopping-list export.                    *)
(*                                                                         *)
(* The relational tables are the state.  The join tables are bags of rows *)
(* so that a duplicate row is a state the model can express: it is the    *)
(* storage constraints of the models, not the representation, that keep   *)
(* them duplicate free.  The database runs in Django's default autocommit *)
(* mode: every ORM statement is one atomic step, and a handler is a       *)
(* sequence of such statements.                                            *)
(***************************************************************************)
EXTENDS Integers, Sequences, FiniteSets, Bags, TLC

\* ---------------------------------------------------------------- bounds
NUsers == 2
MaxRecipes == 2
MaxAmount == 2
MaxLen == 2
NWorkers == 2

\* ----------------------------------------------------- program constants
MIN_COUNT == 1
MAX_COUNT == 1000
MIN_INGREDIENT_COUNT == 1
MIN_COOKING_TIME == 1
MIN_COOKING_TIME_MODEL == 1
MAX_COOKING_TIME_MODEL == 1000

HTTP_200_OK == 200
HTTP_201_CREATED == 201
HTTP_204_NO_CONTENT == 204
HTTP_400_BAD_REQUEST == 400
HTTP_401_UNAUTHORIZED == 401
HTTP_403_FORBIDDEN == 403
HTTP_404_NOT_FOUND == 404
HTTP_500_INTERNAL_SERVER_ERROR == 500

\* ------------------------------------------------------------- catalogs
Users == 1..NUsers
RecipeIds == 1..MaxRecipes
Workers == 1..NWorkers

\* The Tag table (recipes/models.py, loaded by load_tags): primary keys.
Tag == {1, 2}

\* The Ingredient table (loaded by load_data): id -> (name, measurement_unit),
\* the pair unique by the constraint ingredient_name_measurement_unit.  Two
\* rows share a name and differ in the unit.
Ingredient ==
    (1 :> [name |-> "salt", measurement_unit |-> "g"]) @@
    (2 :> [name |-> "salt", measurement_unit |-> "pinch"]) @@
    (3 :> [name |-> "flour", measurement_unit |-> "g"])

IngredientIds == DOMAIN Ingredient

\* An ingredient id of a request that is in no row of the Ingredient table.
NoSuchIngredient == Cardinality(IngredientIds) + 1

\* request.user.is_superuser: the last user is the administrator.
is_superuser(u) == u = NUsers

NoRecipe == [author |-> 0, cooking_time |-> 0, image |-> "none"]

VARIABLES
    recipes,              \* Recipe table: id -> row, NoRecipe where there is none
    next_recipe_id,       \* the auto-increment primary key of Recipe
    recipe_tags,          \* Recipe.tags (many-to-many): id -> set of Tag ids
    ingredient_in_recipe, \* IngredientInRecipe: bag of [recipe, ingredient, amount]
    favorites,            \* Favorite: bag of [user, recipe]
    shopping_cart,        \* ShoppingCart: bag of [user, recipe]
    subscriptions,        \* Subscription: bag of [user, author]
    accepted,             \* history: id -> the associations of the payload last accepted
    tx,                   \* requests in flight: worker -> its request and position
    response              \* the last response sent

vars == <<recipes, next_recipe_id, recipe_tags, ingredient_in_recipe, favorites,
          shopping_cart, subscriptions, accepted, tx, response>>

recipe_vars == <<recipes, next_recipe_id, recipe_tags, ingredient_in_recipe, accepted>>
toggle_vars == <<favorites, shopping_cart>>

\* --------------------------------------------------------------- helpers
RECURSIVE SumOver(_, _)
SumOver(f, S) ==
    IF S = {} THEN 0
    ELSE LET x == CHOOSE y \in S : TRUE
         IN  f[x] + SumOver(f, S \ {x})

Range(s) == {s[i] : i \in DOMAIN s}

SeqsUpTo(S, n) == UNION {[1..k -> S] : k \in 0..n}

\* A Python dict read with d.get(key, default).
get(d, key, default) == IF key \in DOMAIN d THEN d[key] ELSE default

\* A response: the handler that answered, the HTTP status, the error it carries
\* ("" for none) and, for the shopping list, the lines.
Response(op, status, error) ==
    [op |-> op, status |-> status, error |-> error, body |-> <<>>]

NoResponse == [op |-> "none", status |-> HTTP_200_OK, error |-> "", body |-> <<>>]

Idle == [pc |-> "idle"]

RecipeExists(pk) == pk \in RecipeIds /\ recipes[pk] # NoRecipe

\* ------------------------------------------------- storage constraints
\* A join table whose Meta declares no UniqueConstraint.
unique_constraint_missing(table, row) == TRUE

\* UniqueConstraint(fields=['user', 'recipe']) of Favorite and ShoppingCart and
\* UniqueConstraint(fields=('user', 'author')) of Subscription: an INSERT of a
\* row that is already in the table raises IntegrityError.
unique_constraint_ok(table, row) == ~BagIn(row, table)

\* CheckConstraint prevent_self_follow: ~Q(user=F('author')).
prevent_self_follow_ok(row) == row.user # row.author

\* A serializer whose Meta declares no UniqueTogetherValidator.
UniqueTogetherValidator_missing(table, row) == TRUE

\* rest_framework UniqueTogetherValidator(queryset=Model.objects.all(), fields):
\* a SELECT ... EXISTS at validation time.
UniqueTogetherValidator(table, row) == ~BagIn(row, table)

\* ------------------------------------- favorite / shopping_cart toggles
ToggleRow(u, pk) == [user |-> u, recipe |-> pk]

\* serializer.save() of add_to: the INSERT, under the unique constraint.
add_to_save(table, row) ==
    IF unique_constraint_ok(table, row)
    THEN [table |-> table (+) SetToBag({row}), status |-> HTTP_201_CREATED, error |-> ""]
    ELSE [table |-> table, status |-> HTTP_500_INTERNAL_SERVER_ERROR,
          error |-> "IntegrityError"]

\* RecipeViewSet.add_to as one request served alone.
add_to(table, u, pk) ==
    IF ~RecipeExists(pk)
    THEN [table |-> table, status |-> HTTP_400_BAD_REQUEST, error |-> "recipe_does_not_exist"]
    ELSE IF ~UniqueTogetherValidator(table, ToggleRow(u, pk))
    THEN [table |-> table, status |-> HTTP_400_BAD_REQUEST, error |-> "already_added"]
    ELSE add_to_save(table, ToggleRow(u, pk))

\* A delete filtered on the user alone.
filter_delete_user(table, u, pk) ==
    LET hit == {x \in BagToSet(table) : x.user = u}
    IN  table (-) [x \in hit |-> CopiesIn(x, table)]

\* model.objects.filter(user=user, recipe__id=pk).delete(): every matching row.
filter_delete(table, u, pk) ==
    LET hit == {x \in BagToSet(table) : x.user = u /\ x.recipe = pk}
    IN  table (-) [x \in hit |-> CopiesIn(x, table)]

\* delete_from without its exists() guard: the delete of no row answers 204.
delete_from_unguarded(table, u, pk) ==
    IF ~RecipeExists(pk)
    THEN [table |-> table, status |-> HTTP_404_NOT_FOUND, error |-> "recipe_not_found"]
    ELSE [table |-> filter_delete(table, u, pk), status |-> HTTP_204_NO_CONTENT, error |-> ""]

\* RecipeViewSet.delete_from as one request served alone.
delete_from(table, u, pk) ==
    IF ~RecipeExists(pk)
    THEN [table |-> table, status |-> HTTP_404_NOT_FOUND, error |-> "recipe_not_found"]
    ELSE IF ~BagIn(ToggleRow(u, pk), table)
    THEN [table |-> table, status |-> HTTP_400_BAD_REQUEST, error |-> "not_in_list"]
    ELSE [table |-> filter_delete(table, u, pk), status |-> HTTP_204_NO_CONTENT, error |-> ""]

FavoritePost(u, pk) ==
    LET res == add_to(favorites, u, pk)
    IN  /\ favorites' = res.table
        /\ response' = Response("favorite_post", res.status, res.error)
        /\ UNCHANGED <<recipe_vars, shopping_cart, subscriptions, tx>>

FavoriteDelete(u, pk) ==
    LET res == delete_from(favorites, u, pk)
    IN  /\ favorites' = res.table
        /\ response' = Response("favorite_delete", res.status, res.error)
        /\ UNCHANGED <<recipe_vars, shopping_cart, subscriptions, tx>>

ShoppingCartPost(u, pk) ==
    LET res == add_to(shopping_cart, u, pk)
    IN  /\ shopping_cart' = res.table
        /\ response' = Response("shopping_cart_post", res.status, res.error)
        /\ UNCHANGED <<recipe_vars, favorites, subscriptions, tx>>

ShoppingCartDelete(u, pk) ==
    LET res == delete_from(shopping_cart, u, pk)
    IN  /\ shopping_cart' = res.table
        /\ response' = Response("shopping_cart_delete", res.status, res.error)
        /\ UNCHANGED <<recipe_vars, favorites, subscriptions, tx>>

\* -------------------------------------------------------- subscriptions
SubscriptionRow(u, a) == [user |-> u, author |-> a]

\* validate() without the comparison of request.user with the author.
SubscriptionInfoSerializer_validate_no_check(u, data) == TRUE

\* SubscriptionInfoSerializer.validate: the self-subscription check.
SubscriptionInfoSerializer_validate(u, data) == u # data.author

\* serializer.is_valid(): the Meta validators (UniqueTogetherValidator) run
\* first, then validate(); the result is the error, "" when valid.
SubscriptionInfoSerializer_is_valid(table, u, data) ==
    IF ~UniqueTogetherValidator(table, data) THEN "duplicate_subscription"
    ELSE IF ~SubscriptionInfoSerializer_validate(u, data) THEN "self_subscription"
    ELSE ""

\* serializer.save(): the INSERT, under both constraints of Subscription.
subscription_save(table, row) ==
    IF unique_constraint_ok(table, row) /\ prevent_self_follow_ok(row)
    THEN [table |-> table (+) SetToBag({row}), status |-> HTTP_201_CREATED, error |-> ""]
    ELSE [table |-> table, status |-> HTTP_500_INTERNAL_SERVER_ERROR,
          error |-> "IntegrityError"]

\* UserViewSet.create_subscription as one request served alone.
create_subscription(table, u, a) ==
    LET err == SubscriptionInfoSerializer_is_valid(table, u, SubscriptionRow(u, a))
    IN  IF err # ""
        THEN [table |-> table, status |-> HTTP_400_BAD_REQUEST, error |-> err]
        ELSE subscription_save(table, SubscriptionRow(u, a))

\* UserViewSet.delete_subscription.
delete_subscription(table, u, a) ==
    IF ~BagIn(SubscriptionRow(u, a), table)
    THEN [table |-> table, status |-> HTTP_400_BAD_REQUEST, error |-> "no_subscription"]
    ELSE [table |-> table (-) SetToBag({SubscriptionRow(u, a)}),
          status |-> HTTP_204_NO_CONTENT, error |-> ""]

\* ------------------------------------------------------ recipe payloads
None == "none"

Item(id, amount) == [id |-> id, amount |-> amount]

MkData(t, i, c, im) == [tags |-> t, ingredients |-> i, cooking_time |-> c, image |-> im]

IngredientSet(rows) == {<<x.id, x.amount>> : x \in Range(rows)}

\* RecipeCreateUpdateSerializer.to_internal_value: the declared fields, before
\* validate().  tags is a PrimaryKeyRelatedField(many=True) over Tag, ingredients
\* a list of IngredientInRecipeCreateSerializer (amount in MIN_COUNT..MAX_COUNT),
\* cooking_time carries the validators of the model field and has a default,
\* so it alone is optional; with partial=True (PATCH) an absent field is skipped.
to_internal_value(data, partial) ==
    IF ~partial /\ ~({"tags", "ingredients", "cooking_time", "image"} \subseteq DOMAIN data)
    THEN "required"
    ELSE IF "tags" \in DOMAIN data /\ ~(Range(data.tags) \subseteq Tag)
    THEN "invalid_pk"
    ELSE IF "ingredients" \in DOMAIN data
            /\ \E x \in Range(data.ingredients) :
                   x.amount < MIN_COUNT \/ x.amount > MAX_COUNT
    THEN "amount_out_of_range"
    ELSE IF "cooking_time" \in DOMAIN data
            /\ (data.cooking_time < MIN_COOKING_TIME_MODEL
                \/ data.cooking_time > MAX_COOKING_TIME_MODEL)
    THEN "cooking_time_out_of_range"
    ELSE IF "image" \in DOMAIN data /\ data.image = None
    THEN "invalid_image"
    ELSE ""

\* The loop of validate over the ingredients, from position i with the ids seen
\* so far: the first failing rule raises.
RECURSIVE validate_ingredients(_, _, _)
validate_ingredients(ingredients, i, ingredients_list) ==
    IF i > Len(ingredients) THEN ""
    ELSE LET ingredient_id == ingredients[i].id
             amount == ingredients[i].amount
         IN  IF amount < MIN_INGREDIENT_COUNT THEN "amount_below_minimum"
             ELSE IF ingredient_id \notin IngredientIds THEN "ingredient_does_not_exist"
             ELSE IF ingredient_id \in ingredients_list THEN "ingredient_repeated"
             ELSE validate_ingredients(ingredients, i + 1,
                                       ingredients_list \cup {ingredient_id})

\* validate() that takes a cooking_time left out as the minimum.
validate_cooking_time_default(data) ==
    LET ingredients == get(data, "ingredients", <<>>)
        tags == get(data, "tags", <<>>)
        cooking_time == get(data, "cooking_time", MIN_COOKING_TIME)
        image == get(data, "image", None)
    IN  IF tags = <<>> THEN "no_tags"
        ELSE IF Len(tags) # Cardinality(Range(tags)) THEN "tags_repeated"
        ELSE IF ingredients = <<>> THEN "no_ingredients"
        ELSE IF validate_ingredients(ingredients, 1, {}) # ""
        THEN validate_ingredients(ingredients, 1, {})
        ELSE IF cooking_time < MIN_COOKING_TIME THEN "cooking_time_below_minimum"
        ELSE IF image = None THEN "no_image"
        ELSE ""

\* validate() that returns every payload.
validate_skipped(data) == ""

\* validate() with len(tags) != len(set(tags)) left out.
validate_no_tag_repeat_check(data) ==
    LET ingredients == get(data, "ingredients", <<>>)
        tags == get(data, "tags", <<>>)
        cooking_time == get(data, "cooking_time", 0)
        image == get(data, "image", None)
    IN  IF tags = <<>> THEN "no_tags"
        ELSE IF ingredients = <<>> THEN "no_ingredients"
        ELSE IF validate_ingredients(ingredients, 1, {}) # ""
        THEN validate_ingredients(ingredients, 1, {})
        ELSE IF cooking_time < MIN_COOKING_TIME THEN "cooking_time_below_minimum"
        ELSE IF image = None THEN "no_image"
        ELSE ""

\* RecipeCreateUpdateSerializer.validate: "" when the data is returned, the
\* error of the first failing rule when ValidationError is raised.
validate(data) ==
    LET ingredients == get(data, "ingredients", <<>>)
        tags == get(data, "tags", <<>>)
        cooking_time == get(data, "cooking_time", 0)
        image == get(data, "image", None)
    IN  IF tags = <<>> THEN "no_tags"
        ELSE IF Len(tags) # Cardinality(Range(tags)) THEN "tags_repeated"
        ELSE IF ingredients = <<>> THEN "no_ingredients"
        ELSE IF validate_ingredients(ingredients, 1, {}) # ""
        THEN validate_ingredients(ingredients, 1, {})
        ELSE IF cooking_time < MIN_COOKING_TIME THEN "cooking_time_below_minimum"
        ELSE IF image = None THEN "no_image"
        ELSE ""

\* serializer.is_valid(): the fields, then validate().
is_valid(data, partial) ==
    IF to_internal_value(data, partial) # "" THEN to_internal_value(data, partial)
    ELSE validate(data)

\* ----------------------------------------------- recipe ORM statements
\* UniqueConstraint(fields=['ingredient', 'recipe'], name='unique_ingredient'):
\* a batch is refused when it repeats a pair or holds one already in the table.
unique_ingredient_ok(table, rows) ==
    /\ \A i, j \in DOMAIN rows :
           (rows[i].recipe = rows[j].recipe /\ rows[i].ingredient = rows[j].ingredient)
               => i = j
    /\ \A i \in DOMAIN rows : \A x \in BagToSet(table) :
           ~(x.recipe = rows[i].recipe /\ x.ingredient = rows[i].ingredient)

RECURSIVE SeqToBag(_)
SeqToBag(rows) ==
    IF rows = <<>> THEN EmptyBag
    ELSE SetToBag({Head(rows)}) (+) SeqToBag(Tail(rows))

\* IngredientInRecipe.objects.bulk_create(instances): one INSERT.
bulk_create(table, rows) ==
    IF unique_ingredient_ok(table, rows)
    THEN [ok |-> TRUE, table |-> table (+) SeqToBag(rows)]
    ELSE [ok |-> FALSE, table |-> table]

\* RecipeCreateUpdateSerializer.create_ingredients_recipes.
create_ingredients_recipes(table, ingredients, recipe) ==
    bulk_create(table,
        [i \in DOMAIN ingredients |->
            [recipe |-> recipe, ingredient |-> ingredients[i].id,
             amount |-> ingredients[i].amount]])

\* Recipe.objects.create(**validated_data), author from perform_create.
Recipe_objects_create(table, id, u, data) ==
    [table EXCEPT ![id] = [author |-> u, cooking_time |-> data.cooking_time,
                           image |-> data.image]]

\* recipe.tags.set(tags) and instance.tags.clear().
tags_set(table, id, tags) == [table EXCEPT ![id] = Range(tags)]
tags_clear(table, id) == [table EXCEPT ![id] = {}]

\* update() without the delete of the recipe's rows.
ingredients_filter_delete_skipped(table, id) == table

\* IngredientInRecipe.objects.filter(recipe=instance).delete().
ingredients_filter_delete(table, id) ==
    LET hit == {x \in BagToSet(table) : x.recipe = id}
    IN  table (-) [x \in hit |-> CopiesIn(x, table)]

\* super().update(instance, validated_data): the remaining fields, then save().
super_update(table, id, data) ==
    [table EXCEPT ![id] = [author |-> table[id].author,
                           cooking_time |-> get(data, "cooking_time", table[id].cooking_time),
                           image |-> get(data, "image", table[id].image)]]

RecipeIngredients(id) ==
    {<<x.ingredient, x.amount>> : x \in {y \in BagToSet(ingredient_in_recipe) : y.recipe = id}}

NoAssociations == [tags |-> {}, ingredients |-> {}]

\* What a payload asks for: its tag set and its (ingredient, amount) pairs.
Submitted(data) == [tags |-> Range(data.tags), ingredients |-> IngredientSet(data.ingredients)]

\* What the tables hold for a recipe.
Persisted(id) == [tags |-> recipe_tags[id], ingredients |-> RecipeIngredients(id)]

\* History, kept with the response of an update: whether the recipe held a tag
\* or an ingredient row that the payload does not ask for.
Replaces(id, data) ==
    \/ ~(Persisted(id).tags \subseteq Submitted(data).tags)
    \/ ~(Persisted(id).ingredients \subseteq Submitted(data).ingredients)

\* request.user of a request without credentials (AnonymousUser), and who may
\* send a request.
Anonymous == 0
Requesters == Users \cup {Anonymous}
is_authenticated(u) == u \in Users

\* IsOwnerOrAdminOrReadOnly.has_permission for an unsafe method.
has_permission(u) == is_authenticated(u)

\* has_object_permission that lets every authenticated user write.
has_object_permission_open(u, obj) == TRUE

\* IsOwnerOrAdminOrReadOnly.has_object_permission for an unsafe method.
has_object_permission(u, obj) ==
    IF is_superuser(u) THEN TRUE ELSE obj.author = u

\* ------------------------------------ recipe handlers, served alone
\* check_permissions() fails before the handler runs: NotAuthenticated, sent as
\* 401 or 403 as the authentication classes of the settings decide.
NotAuthenticated(op) ==
    /\ \E status \in {HTTP_401_UNAUTHORIZED, HTTP_403_FORBIDDEN} :
           response' = Response(op, status, "not_authenticated")
    /\ UNCHANGED <<recipe_vars, toggle_vars, subscriptions, tx>>

\* RecipeCreateUpdateSerializer.create: the three statements in order.
RecipeCreate(u, data) ==
    LET err == is_valid(data, FALSE)
        id == next_recipe_id
        rows == create_ingredients_recipes(ingredient_in_recipe, data.ingredients, id)
    IN  IF ~has_permission(u)
        THEN NotAuthenticated("recipe_create")
        ELSE IF err # ""
        THEN /\ response' = Response("recipe_create", HTTP_400_BAD_REQUEST, err)
             /\ UNCHANGED <<recipe_vars, toggle_vars, subscriptions, tx>>
        ELSE /\ next_recipe_id <= MaxRecipes
             /\ next_recipe_id' = id + 1
             /\ recipes' = Recipe_objects_create(recipes, id, u, data)
             /\ recipe_tags' = tags_set(recipe_tags, id, data.tags)
             /\ ingredient_in_recipe' = rows.table
             /\ accepted' = IF rows.ok THEN [accepted EXCEPT ![id] = Submitted(data)]
                            ELSE accepted
             /\ response' = IF rows.ok
                            THEN Response("recipe_create", HTTP_201_CREATED, "")
                            ELSE Response("recipe_create", HTTP_500_INTERNAL_SERVER_ERROR, "IntegrityError")
             /\ UNCHANGED <<toggle_vars, subscriptions, tx>>

\* UpdateModelMixin.update (PUT, or PATCH with partial) and
\* RecipeCreateUpdateSerializer.update: the five statements in order.
RecipeUpdate(u, pk, data, partial) ==
    IF ~has_permission(u)
    THEN NotAuthenticated("recipe_update")
    ELSE IF ~RecipeExists(pk)
    THEN /\ response' = Response("recipe_update", HTTP_404_NOT_FOUND, "not_found")
         /\ UNCHANGED <<recipe_vars, toggle_vars, subscriptions, tx>>
    ELSE IF ~has_object_permission(u, recipes[pk])
    THEN /\ response' = Response("recipe_update", HTTP_403_FORBIDDEN, "forbidden")
         /\ UNCHANGED <<recipe_vars, toggle_vars, subscriptions, tx>>
    ELSE IF is_valid(data, partial) # ""
    THEN /\ response' = Response("recipe_update", HTTP_400_BAD_REQUEST,
                                 is_valid(data, partial))
         /\ UNCHANGED <<recipe_vars, toggle_vars, subscriptions, tx>>
    ELSE LET rows == create_ingredients_recipes(
                         ingredients_filter_delete(ingredient_in_recipe, pk),
                         data.ingredients, pk)
         IN  /\ recipe_tags' = tags_set(tags_clear(recipe_tags, pk), pk, data.tags)
             /\ ingredient_in_recipe' = rows.table
             /\ recipes' = IF rows.ok THEN super_update(recipes, pk, data) ELSE recipes
             /\ accepted' = IF rows.ok THEN [accepted EXCEPT ![pk] = Submitted(data)]
                            ELSE accepted
             /\ response' = IF rows.ok
                            THEN [Response("recipe_update", HTTP_200_OK, "") EXCEPT
                                     !.body = [replaced |-> Replaces(pk, data)]]
                            ELSE Response("recipe_update", HTTP_500_INTERNAL_SERVER_ERROR, "IntegrityError")
             /\ UNCHANGED <<next_recipe_id, toggle_vars, subscriptions, tx>>

\* A foreign key to the recipe without on_delete=CASCADE at work.
cascade_none(table, pk) == table

\* History, kept with the response of a delete: whether a Favorite or a
\* ShoppingCart row referenced the recipe.
Referenced(pk) ==
    \E x \in BagToSet(favorites) \cup BagToSet(shopping_cart) : x.recipe = pk

\* on_delete=CASCADE of the recipe foreign key of a join table.
cascade(table, pk) ==
    LET hit == {x \in BagToSet(table) : x.recipe = pk}
    IN  table (-) [x \in hit |-> CopiesIn(x, table)]

\* DestroyModelMixin.destroy: the recipe and, by CASCADE, the rows that
\* reference it.
RecipeDelete(u, pk) ==
    IF ~has_permission(u)
    THEN NotAuthenticated("recipe_delete")
    ELSE IF ~RecipeExists(pk)
    THEN /\ response' = Response("recipe_delete", HTTP_404_NOT_FOUND, "not_found")
         /\ UNCHANGED <<recipe_vars, toggle_vars, subscriptions, tx>>
    ELSE IF ~has_object_permission(u, recipes[pk])
    THEN /\ response' = Response("recipe_delete", HTTP_403_FORBIDDEN, "forbidden")
         /\ UNCHANGED <<recipe_vars, toggle_vars, subscriptions, tx>>
    ELSE /\ recipes' = [recipes EXCEPT ![pk] = NoRecipe]
         /\ recipe_tags' = tags_clear(recipe_tags, pk)
         /\ ingredient_in_recipe' = cascade(ingredient_in_recipe, pk)
         /\ favorites' = cascade(favorites, pk)
         /\ shopping_cart' = cascade(shopping_cart, pk)
         /\ accepted' = [accepted EXCEPT ![pk] = NoAssociations]
         /\ response' = [Response("recipe_delete", HTTP_204_NO_CONTENT, "") EXCEPT
                             !.body = [cascaded |-> Referenced(pk)]]
         /\ UNCHANGED <<next_recipe_id, subscriptions, tx>>

\* --------------------------------------------------- shopping-list export
\* The join without the filter on the cart's user.
JoinedCopies_any_user(u, x) ==
    CopiesIn(x, ingredient_in_recipe)
        * SumOver([v \in Users |-> CopiesIn(ToggleRow(v, x.recipe), shopping_cart)], Users)

\* The rows of the query of generate_shopping_list: IngredientInRecipe joined
\* with ShoppingCart on the recipe, filtered on the cart's user.  A row of
\* IngredientInRecipe comes once for every cart row it joins.
JoinedCopies(u, x) ==
    CopiesIn(x, ingredient_in_recipe) * CopiesIn(ToggleRow(u, x.recipe), shopping_cart)

Joined(u) == {x \in BagToSet(ingredient_in_recipe) : JoinedCopies(u, x) > 0}

\* A GROUP BY that keeps the Meta.ordering column of IngredientInRecipe.
GroupKey_with_ordering(x) ==
    <<Ingredient[x.ingredient].name, Ingredient[x.ingredient].measurement_unit, x.recipe>>

\* .values("ingredient__name", "ingredient__measurement_unit"): the GROUP BY key
\* (Meta.ordering of IngredientInRecipe takes no part in a grouped query).
GroupKey(x) == <<Ingredient[x.ingredient].name, Ingredient[x.ingredient].measurement_unit>>

\* .annotate(amount=Sum('amount')): one record per group.
Annotated(u) ==
    {[name |-> k[1], unit |-> k[2],
      amount |-> LET rows == {x \in Joined(u) : GroupKey(x) = k}
                 IN  SumOver([x \in rows |-> JoinedCopies(u, x) * x.amount], rows)]
        : k \in {GroupKey(x) : x \in Joined(u)}}

\* generate_shopping_list without the test of the cart.
shopping_cart_exists_unchecked(u) == TRUE

\* user.shopping_cart.exists().
shopping_cart_exists(u) == \E x \in BagToSet(shopping_cart) : x.user = u

\* The orders a query without ORDER BY may return its rows in.
Orders(S) == {s \in [1..Cardinality(S) -> S] : \A i, j \in DOMAIN s : s[i] = s[j] => i = j}

\* RecipeViewSet.generate_shopping_list / download_shopping_cart: 400 for an
\* empty cart, else one line per record of the query, then the footer.
DownloadShoppingCart(u) ==
    /\ IF ~shopping_cart_exists(u)
       THEN response' = Response("download_shopping_cart", HTTP_400_BAD_REQUEST, "")
       ELSE \E lines \in Orders(Annotated(u)) :
                response' = [Response("download_shopping_cart", HTTP_200_OK, "")
                                EXCEPT !.body = [lines |-> lines, footer |-> "Foodgram"]]
    /\ UNCHANGED <<recipe_vars, toggle_vars, subscriptions, tx>>

\* ------------------------------------------------------------- requests
NoTx == [w \in Workers |-> Idle]

\* The database after the migrations and the load_tags / load_data commands.
Migrated ==
    /\ recipes = [id \in RecipeIds |-> NoRecipe]
    /\ next_recipe_id = 1
    /\ recipe_tags = [id \in RecipeIds |-> {}]
    /\ ingredient_in_recipe = EmptyBag
    /\ favorites = EmptyBag
    /\ shopping_cart = EmptyBag
    /\ subscriptions = EmptyBag
    /\ accepted = [id \in RecipeIds |-> NoAssociations]
    /\ response = NoResponse

Init == Migrated /\ tx = NoTx

\* The payloads of the recipe requests of Spec: one that is accepted and one
\* that validation refuses.
TogglePayloads ==
    { MkData(<<1>>, <<Item(1, 1)>>, 1, "img"),
      MkData(<<>>, <<Item(1, 1)>>, 1, "img") }

\* Spec: the favorite and shopping-cart toggles over recipes that come and go,
\* requests served one at a time, each handler run to its response.
Next ==
    \/ \E u \in Users, pk \in RecipeIds : FavoritePost(u, pk)
    \/ \E u \in Users, pk \in RecipeIds : FavoriteDelete(u, pk)
    \/ \E u \in Users, pk \in RecipeIds : ShoppingCartPost(u, pk)
    \/ \E u \in Users, pk \in RecipeIds : ShoppingCartDelete(u, pk)
    \/ \E u \in Users, data \in TogglePayloads : RecipeCreate(u, data)
    \/ \E u \in Users, pk \in RecipeIds : RecipeDelete(u, pk)

Spec == Init /\ [][Next]_vars

\* The payloads of the recipe requests of SpecCart: recipes that share an
\* ingredient in different amounts, one that holds both units of salt, and a
\* payload that validation refuses.
CartPayloads ==
    { MkData(<<1>>, <<Item(1, 1)>>, 1, "img"),
      MkData(<<2, 1>>, <<Item(1, MaxAmount), Item(2, 1)>>, 1, "img"),
      MkData(<<2>>, <<Item(3, MaxAmount), Item(1, 1)>>, 1, "img"),
      MkData(<<1>>, <<Item(1, 1), Item(1, MaxAmount)>>, 1, "img") }

\* SpecCart: the shopping cart and its export over recipes that are created,
\* updated and deleted, requests served one at a time.
NextCart ==
    \/ \E u \in Users, pk \in RecipeIds : ShoppingCartPost(u, pk)
    \/ \E u \in Users, pk \in RecipeIds : ShoppingCartDelete(u, pk)
    \/ \E u \in Users : DownloadShoppingCart(u)
    \/ \E u \in Users, data \in CartPayloads : RecipeCreate(u, data)
    \/ \E u \in Users, pk \in RecipeIds, data \in CartPayloads :
           RecipeUpdate(u, pk, data, FALSE)
    \/ \E u \in Users, pk \in RecipeIds : RecipeDelete(u, pk)

SpecCart == Init /\ [][NextCart]_vars

\* The payloads of the recipe requests of SpecRecipe: every tag list up to
\* MaxLen with one ingredient, every ingredient list up to MaxLen over
\* RecipeItems with one tag, an unknown ingredient, an amount below the
\* minimum, and payloads with a field left out.
RecipeItems == {Item(1, a) : a \in {1, MaxAmount}} \cup {Item(2, 1)}

Keys == {"tags", "ingredients", "cooking_time", "image"}

Restrict(d, K) == [k \in K |-> d[k]]

PartialPayloads ==
    {Restrict(MkData(<<2>>, <<Item(2, 1)>>, 1, "img"), Keys \ {k}) : k \in Keys}

RecipePayloads ==
    {MkData(t, <<Item(1, 1)>>, 1, "img") : t \in SeqsUpTo(Tag, MaxLen)}
        \cup {MkData(<<1>>, i, 1, "img") : i \in SeqsUpTo(RecipeItems, MaxLen)}
        \cup {MkData(<<1>>, <<Item(NoSuchIngredient, 1)>>, 1, "img"),
              MkData(<<1>>, <<Item(1, MIN_COUNT - 1)>>, 1, "img")}
        \cup PartialPayloads

\* PUT with every payload, PATCH with the payloads that leave a field out and
\* with one that has them all.
RecipeUpdates ==
    {<<data, FALSE>> : data \in RecipePayloads}
        \cup {<<data, TRUE>> : data \in PartialPayloads \cup {MkData(<<1>>, <<Item(1, 1)>>, 1, "img")}}

\* SpecRecipe: recipes created, updated (PUT and PATCH) and deleted, requests
\* served one at a time.
NextRecipe ==
    \/ \E u \in Users, data \in RecipePayloads : RecipeCreate(u, data)
    \/ \E u \in Users, pk \in RecipeIds, r \in RecipeUpdates :
           RecipeUpdate(u, pk, r[1], r[2])
    \/ \E u \in Users, pk \in RecipeIds : RecipeDelete(u, pk)

SpecRecipe == Init /\ [][NextRecipe]_vars

\* The payloads of SpecAccess: two that are accepted, one without tags, one
\* that repeats an ingredient, and those that leave a field out.
AccessPayloads ==
    {MkData(<<1>>, <<Item(1, 1)>>, 1, "img"),
     MkData(<<2>>, <<Item(2, 1), Item(1, MaxAmount)>>, 1, "img"),
     MkData(<<>>, <<Item(1, 1)>>, 1, "img"),
     MkData(<<1>>, <<Item(2, 1), Item(2, 1)>>, 1, "img")}
        \cup PartialPayloads

\* SpecAccess: recipe requests of every requester, the anonymous one included,
\* served one at a time.
NextAccess ==
    \/ \E u \in Requesters, data \in AccessPayloads : RecipeCreate(u, data)
    \/ \E u \in Requesters, pk \in RecipeIds, data \in AccessPayloads, partial \in BOOLEAN :
           RecipeUpdate(u, pk, data, partial)
    \/ \E u \in Requesters, pk \in RecipeIds : RecipeDelete(u, pk)

SpecAccess == Init /\ [][NextAccess]_vars

\* UserViewSet.subscribe, POST and DELETE, each as one request served alone.
SubscribePost(u, a) ==
    LET res == create_subscription(subscriptions, u, a)
    IN  /\ subscriptions' = res.table
        /\ response' = Response("subscribe_post", res.status, res.error)
        /\ UNCHANGED <<recipe_vars, toggle_vars, tx>>

SubscribeDelete(u, a) ==
    LET res == delete_subscription(subscriptions, u, a)
    IN  /\ subscriptions' = res.table
        /\ response' = Response("subscribe_delete", res.status, res.error)
        /\ UNCHANGED <<recipe_vars, toggle_vars, tx>>

\* The recipes SpecExport starts with: recipe 1 of user 1 with salt, recipe 2
\* of user 2 with flour and salt, both created with these payloads.
ExportPayloads ==
    <<MkData(<<1>>, <<Item(1, 1)>>, 1, "img"),
      MkData(<<2>>, <<Item(3, MaxAmount), Item(1, 1)>>, 1, "img")>>

InitExport ==
    /\ recipes = Recipe_objects_create(
                     Recipe_objects_create([id \in RecipeIds |-> NoRecipe],
                                           1, 1, ExportPayloads[1]),
                     2, 2, ExportPayloads[2])
    /\ next_recipe_id = Len(ExportPayloads) + 1
    /\ recipe_tags = tags_set(tags_set([id \in RecipeIds |-> {}], 1, ExportPayloads[1].tags),
                              2, ExportPayloads[2].tags)
    /\ ingredient_in_recipe =
           create_ingredients_recipes(
               create_ingredients_recipes(EmptyBag, ExportPayloads[1].ingredients, 1).table,
               ExportPayloads[2].ingredients, 2).table
    /\ accepted = [id \in RecipeIds |->
                      IF id \in DOMAIN ExportPayloads THEN Submitted(ExportPayloads[id])
                      ELSE NoAssociations]
    /\ favorites = EmptyBag
    /\ shopping_cart = EmptyBag
    /\ subscriptions = EmptyBag
    /\ tx = NoTx
    /\ response = NoResponse

\* SpecExport: favorites, carts, subscriptions and exports over two recipes,
\* requests served one at a time.
NextExport ==
    \/ \E u \in Users, pk \in RecipeIds : FavoritePost(u, pk)
    \/ \E u \in Users, pk \in RecipeIds : FavoriteDelete(u, pk)
    \/ \E u \in Users, pk \in RecipeIds : ShoppingCartPost(u, pk)
    \/ \E u \in Users, pk \in RecipeIds : ShoppingCartDelete(u, pk)
    \/ \E u \in Users, a \in Users : SubscribePost(u, a)
    \/ \E u \in Users, a \in Users : SubscribeDelete(u, a)
    \/ \E u \in Users : DownloadShoppingCart(u)

SpecExport == InitExport /\ [][NextExport]_vars

\* ------------------------------------------- requests served concurrently
\* The worker processes of the server share nothing but the database.  In
\* SpecRace each worker serves one request, given at the start, one ORM
\* statement at a time; the statements of the workers interleave freely.
Request(op, u, target) == [pc |-> "start", op |-> op, user |-> u, target |-> target]

Respond(w, op, status, error) ==
    /\ tx' = [tx EXCEPT ![w].pc = "done"]
    /\ response' = Response(op, status, error)

Goto(w, pc) ==
    /\ tx' = [tx EXCEPT ![w].pc = pc]
    /\ UNCHANGED response

IsFavoriteOp(op) == op \in {"favorite_post", "favorite_delete"}

\* The table of the serializer_class / model the action passes down.
TableOf(op) == IF IsFavoriteOp(op) THEN favorites ELSE shopping_cart

SetTable(op, table) ==
    IF IsFavoriteOp(op)
    THEN favorites' = table /\ UNCHANGED shopping_cart
    ELSE shopping_cart' = table /\ UNCHANGED favorites

\* add_to: Recipe.objects.get(id=pk), DoesNotExist answered with 400.
AddToGet(w) ==
    /\ tx[w].pc = "start"
    /\ tx[w].op \in {"favorite_post", "shopping_cart_post"}
    /\ IF RecipeExists(tx[w].target)
       THEN Goto(w, "is_valid")
       ELSE Respond(w, tx[w].op, HTTP_400_BAD_REQUEST, "recipe_does_not_exist")
    /\ UNCHANGED <<recipe_vars, toggle_vars, subscriptions>>

\* add_to: serializer.is_valid(raise_exception=True).
AddToIsValid(w) ==
    /\ tx[w].pc = "is_valid"
    /\ tx[w].op \in {"favorite_post", "shopping_cart_post"}
    /\ IF UniqueTogetherValidator(TableOf(tx[w].op), ToggleRow(tx[w].user, tx[w].target))
       THEN Goto(w, "save")
       ELSE Respond(w, tx[w].op, HTTP_400_BAD_REQUEST, "already_added")
    /\ UNCHANGED <<recipe_vars, toggle_vars, subscriptions>>

\* add_to: serializer.save() and the 201; an IntegrityError is caught nowhere.
AddToSave(w) ==
    /\ tx[w].pc = "save"
    /\ tx[w].op \in {"favorite_post", "shopping_cart_post"}
    /\ LET res == add_to_save(TableOf(tx[w].op), ToggleRow(tx[w].user, tx[w].target))
       IN  /\ SetTable(tx[w].op, res.table)
           /\ Respond(w, tx[w].op, res.status, res.error)
    /\ UNCHANGED <<recipe_vars, subscriptions>>

\* delete_from: get_object_or_404(Recipe, id=pk).
DeleteFromGet(w) ==
    /\ tx[w].pc = "start"
    /\ tx[w].op \in {"favorite_delete", "shopping_cart_delete"}
    /\ IF RecipeExists(tx[w].target)
       THEN Goto(w, "exists")
       ELSE Respond(w, tx[w].op, HTTP_404_NOT_FOUND, "recipe_not_found")
    /\ UNCHANGED <<recipe_vars, toggle_vars, subscriptions>>

\* delete_from: model.objects.filter(...).exists().
DeleteFromExists(w) ==
    /\ tx[w].pc = "exists"
    /\ tx[w].op \in {"favorite_delete", "shopping_cart_delete"}
    /\ IF BagIn(ToggleRow(tx[w].user, tx[w].target), TableOf(tx[w].op))
       THEN Goto(w, "delete")
       ELSE Respond(w, tx[w].op, HTTP_400_BAD_REQUEST, "not_in_list")
    /\ UNCHANGED <<recipe_vars, toggle_vars, subscriptions>>

\* delete_from: model.objects.filter(...).delete() and the 204.
DeleteFromDelete(w) ==
    /\ tx[w].pc = "delete"
    /\ tx[w].op \in {"favorite_delete", "shopping_cart_delete"}
    /\ SetTable(tx[w].op, filter_delete(TableOf(tx[w].op), tx[w].user, tx[w].target))
    /\ Respond(w, tx[w].op, HTTP_204_NO_CONTENT, "")
    /\ UNCHANGED <<recipe_vars, subscriptions>>

\* subscribe: get_object_or_404(CustomUser, id); every id of Users is a user.
SubscribeGet(w) ==
    /\ tx[w].pc = "start"
    /\ tx[w].op \in {"subscribe_post", "subscribe_delete"}
    /\ Goto(w, IF tx[w].op = "subscribe_post" THEN "is_valid" ELSE "first")
    /\ UNCHANGED <<recipe_vars, toggle_vars, subscriptions>>

\* create_subscription: serializer.is_valid(), the errors answered with 400.
SubscribeIsValid(w) ==
    /\ tx[w].pc = "is_valid"
    /\ tx[w].op = "subscribe_post"
    /\ LET err == SubscriptionInfoSerializer_is_valid(subscriptions, tx[w].user,
                      SubscriptionRow(tx[w].user, tx[w].target))
       IN  IF err = "" THEN Goto(w, "save")
           ELSE Respond(w, tx[w].op, HTTP_400_BAD_REQUEST, err)
    /\ UNCHANGED <<recipe_vars, toggle_vars, subscriptions>>

\* create_subscription: serializer.save() and the 201.
SubscribeSave(w) ==
    /\ tx[w].pc = "save"
    /\ tx[w].op = "subscribe_post"
    /\ LET res == subscription_save(subscriptions, SubscriptionRow(tx[w].user, tx[w].target))
       IN  /\ subscriptions' = res.table
           /\ Respond(w, tx[w].op, res.status, res.error)
    /\ UNCHANGED <<recipe_vars, toggle_vars>>

\* delete_subscription without the test of the row found.
UnsubscribeFirst_unguarded(w) ==
    /\ tx[w].pc = "first"
    /\ tx[w].op = "subscribe_delete"
    /\ Goto(w, "delete")
    /\ UNCHANGED <<recipe_vars, toggle_vars, subscriptions>>

\* delete_subscription: Subscription.objects.filter(...).first().
UnsubscribeFirst(w) ==
    /\ tx[w].pc = "first"
    /\ tx[w].op = "subscribe_delete"
    /\ IF BagIn(SubscriptionRow(tx[w].user, tx[w].target), subscriptions)
       THEN Goto(w, "delete")
       ELSE Respond(w, tx[w].op, HTTP_400_BAD_REQUEST, "no_subscription")
    /\ UNCHANGED <<recipe_vars, toggle_vars, subscriptions>>

\* delete_subscription: subscription.delete(), a DELETE by primary key that
\* finds no row when another request deleted it first, and the 204.
UnsubscribeDelete(w) ==
    /\ tx[w].pc = "delete"
    /\ tx[w].op = "subscribe_delete"
    /\ subscriptions' =
           IF BagIn(SubscriptionRow(tx[w].user, tx[w].target), subscriptions)
           THEN subscriptions (-) SetToBag({SubscriptionRow(tx[w].user, tx[w].target)})
           ELSE subscriptions
    /\ Respond(w, tx[w].op, HTTP_204_NO_CONTENT, "")
    /\ UNCHANGED <<recipe_vars, toggle_vars>>

\* The recipe the concurrent specifications start with: recipe 1, created by
\* user 1 with this payload.
SeedPayload == MkData(<<1>>, <<Item(1, 1)>>, 1, "img")

Seeded ==
    /\ recipes = Recipe_objects_create([id \in RecipeIds |-> NoRecipe], 1, 1, SeedPayload)
    /\ next_recipe_id = 2
    /\ recipe_tags = tags_set([id \in RecipeIds |-> {}], 1, SeedPayload.tags)
    /\ ingredient_in_recipe =
           create_ingredients_recipes(EmptyBag, SeedPayload.ingredients, 1).table
    /\ accepted = [[id \in RecipeIds |-> NoAssociations] EXCEPT ![1] = Submitted(SeedPayload)]
    /\ favorites = EmptyBag
    /\ shopping_cart = EmptyBag
    /\ subscriptions = EmptyBag
    /\ response = NoResponse

RaceRequests ==
    {Request(op, u, pk) :
        op \in {"favorite_post", "favorite_delete", "shopping_cart_post",
                "shopping_cart_delete"},
        u \in Users, pk \in RecipeIds}
    \cup {Request(op, u, a) : op \in {"subscribe_post", "subscribe_delete"},
                              u \in Users, a \in Users}

InitRace == Seeded /\ tx \in [Workers -> RaceRequests]

NextRace ==
    \E w \in Workers :
        \/ AddToGet(w)
        \/ AddToIsValid(w)
        \/ AddToSave(w)
        \/ DeleteFromGet(w)
        \/ DeleteFromExists(w)
        \/ DeleteFromDelete(w)
        \/ SubscribeGet(w)
        \/ SubscribeIsValid(w)
        \/ SubscribeSave(w)
        \/ UnsubscribeFirst(w)
        \/ UnsubscribeDelete(w)

\* SpecRace: concurrent toggle and subscription requests.
SpecRace == InitRace /\ [][NextRace]_vars

\* --------------------------------- recipe requests served concurrently
\* A recipe request of SpecTx: create (target 0 until the row is inserted) or
\* update.  Django runs each ORM statement in its own transaction (autocommit;
\* neither serializer method is wrapped in transaction.atomic), so the
\* statements of two workers interleave and each is visible when it is made.
RecipeRequest(op, u, target, data) ==
    [pc |-> "start", op |-> op, user |-> u, target |-> target, data |-> data]

\* CreateModelMixin.create up to serializer.is_valid(raise_exception=True).
TxCreateIsValid(w) ==
    /\ tx[w].pc = "start"
    /\ tx[w].op = "recipe_create"
    /\ IF is_valid(tx[w].data, FALSE) = ""
       THEN Goto(w, "create")
       ELSE Respond(w, tx[w].op, HTTP_400_BAD_REQUEST, is_valid(tx[w].data, FALSE))
    /\ UNCHANGED <<recipe_vars, toggle_vars, subscriptions>>

\* UpdateModelMixin.update up to serializer.is_valid(raise_exception=True):
\* get_object() with its permission check, then the validation.
TxUpdateIsValid(w) ==
    /\ tx[w].pc = "start"
    /\ tx[w].op = "recipe_update"
    /\ IF ~RecipeExists(tx[w].target)
       THEN Respond(w, tx[w].op, HTTP_404_NOT_FOUND, "not_found")
       ELSE IF ~has_object_permission(tx[w].user, recipes[tx[w].target])
       THEN Respond(w, tx[w].op, HTTP_403_FORBIDDEN, "forbidden")
       ELSE IF is_valid(tx[w].data, FALSE) # ""
       THEN Respond(w, tx[w].op, HTTP_400_BAD_REQUEST, is_valid(tx[w].data, FALSE))
       ELSE Goto(w, "tags_clear")
    /\ UNCHANGED <<recipe_vars, toggle_vars, subscriptions>>

\* create: recipe = Recipe.objects.create(**validated_data).
TxObjectsCreate(w) ==
    /\ tx[w].pc = "create"
    /\ next_recipe_id <= MaxRecipes
    /\ recipes' = Recipe_objects_create(recipes, next_recipe_id, tx[w].user, tx[w].data)
    /\ next_recipe_id' = next_recipe_id + 1
    /\ tx' = [tx EXCEPT ![w].pc = "tags_set", ![w].target = next_recipe_id]
    /\ UNCHANGED <<recipe_tags, ingredient_in_recipe, accepted, toggle_vars,
                   subscriptions, response>>

\* update: instance.tags.clear().
TxTagsClear(w) ==
    /\ tx[w].pc = "tags_clear"
    /\ recipe_tags' = tags_clear(recipe_tags, tx[w].target)
    /\ Goto(w, "tags_set")
    /\ UNCHANGED <<recipes, next_recipe_id, ingredient_in_recipe, accepted,
                   toggle_vars, subscriptions>>

\* create: recipe.tags.set(tags); update: instance.tags.set(tags).
TxTagsSet(w) ==
    /\ tx[w].pc = "tags_set"
    /\ recipe_tags' = tags_set(recipe_tags, tx[w].target, tx[w].data.tags)
    /\ Goto(w, IF tx[w].op = "recipe_create" THEN "bulk_create" ELSE "filter_delete")
    /\ UNCHANGED <<recipes, next_recipe_id, ingredient_in_recipe, accepted,
                   toggle_vars, subscriptions>>

\* update: IngredientInRecipe.objects.filter(recipe=instance).delete().
TxFilterDelete(w) ==
    /\ tx[w].pc = "filter_delete"
    /\ ingredient_in_recipe' = ingredients_filter_delete(ingredient_in_recipe, tx[w].target)
    /\ Goto(w, "bulk_create")
    /\ UNCHANGED <<recipes, next_recipe_id, recipe_tags, accepted, toggle_vars,
                   subscriptions>>

\* create_ingredients_recipes: the bulk_create, an IntegrityError caught
\* nowhere; after it create returns and the view answers 201.
TxBulkCreate(w) ==
    /\ tx[w].pc = "bulk_create"
    /\ LET rows == create_ingredients_recipes(ingredient_in_recipe,
                                              tx[w].data.ingredients, tx[w].target)
       IN  /\ ingredient_in_recipe' = rows.table
           /\ IF ~rows.ok
              THEN /\ Respond(w, tx[w].op, HTTP_500_INTERNAL_SERVER_ERROR, "IntegrityError")
                   /\ UNCHANGED accepted
              ELSE IF tx[w].op = "recipe_create"
              THEN /\ Respond(w, tx[w].op, HTTP_201_CREATED, "")
                   /\ accepted' = [accepted EXCEPT ![tx[w].target] = Submitted(tx[w].data)]
              ELSE /\ Goto(w, "super_update")
                   /\ UNCHANGED accepted
    /\ UNCHANGED <<recipes, next_recipe_id, recipe_tags, toggle_vars, subscriptions>>

\* update: return super().update(instance, validated_data), and the 200.
TxSuperUpdate(w) ==
    /\ tx[w].pc = "super_update"
    /\ recipes' = super_update(recipes, tx[w].target, tx[w].data)
    /\ accepted' = [accepted EXCEPT ![tx[w].target] = Submitted(tx[w].data)]
    /\ Respond(w, tx[w].op, HTTP_200_OK, "")
    /\ UNCHANGED <<next_recipe_id, recipe_tags, ingredient_in_recipe, toggle_vars,
                   subscriptions>>

\* The payloads of SpecTx: three the validator accepts, one it rejects.
TxPayloads ==
    {SeedPayload,
     MkData(<<2>>, <<Item(1, MaxAmount), Item(2, 1)>>, 1, "img"),
     MkData(<<1, 2>>, <<Item(3, 1)>>, 1, "img"),
     MkData(<<1>>, <<Item(2, 1), Item(2, 1)>>, 1, "img")}

TxRequests ==
    {RecipeRequest("recipe_create", u, 0, data) : u \in Users, data \in TxPayloads}
        \cup {RecipeRequest("recipe_update", u, pk, data) :
                  u \in Users, pk \in RecipeIds, data \in TxPayloads}

InitTx == Seeded /\ tx \in [Workers -> TxRequests]

NextTx ==
    \E w \in Workers :
        \/ TxCreateIsValid(w)
        \/ TxUpdateIsValid(w)
        \/ TxObjectsCreate(w)
        \/ TxTagsClear(w)
        \/ TxTagsSet(w)
        \/ TxFilterDelete(w)
        \/ TxBulkCreate(w)
        \/ TxSuperUpdate(w)

\* SpecTx: concurrent recipe creates and updates, one ORM statement at a time.
SpecTx == InitTx /\ [][NextTx]_vars

\* ------------------------------------------------- the validator alone
\* The candidate payloads of SpecValidate: every tag list and every ingredient
\* list up to MaxLen, ingredient ids with and without an Ingredient row,
\* amounts from 0, cooking times from 0, with and without an image, and every
\* payload that leaves fields out.
ValidateItems ==
    {Item(i, a) : i \in IngredientIds \cup {NoSuchIngredient}, a \in 0..MaxAmount}

ValidatePayloads ==
    UNION {{Restrict(MkData(t, i, c, im), K) :
                t \in SeqsUpTo(Tag, MaxLen), i \in SeqsUpTo(ValidateItems, MaxLen),
                c \in 0..MIN_COOKING_TIME, im \in {None, "img"}} :
           K \in SUBSET Keys}

\* Worker 1 is handed a payload; validate() is called on it.
InitValidate ==
    /\ Migrated
    /\ \E data \in ValidatePayloads :
           tx = [w \in Workers |->
                     IF w = 1 THEN [pc |-> "start", op |-> "validate", data |-> data]
                     ELSE Idle]

Validate(w) ==
    /\ tx[w].pc = "start"
    /\ tx[w].op = "validate"
    /\ tx' = [tx EXCEPT ![w] = [pc |-> "done", op |-> "validate", data |-> tx[w].data,
                                result |-> validate(tx[w].data)]]
    /\ UNCHANGED <<recipe_vars, toggle_vars, subscriptions, response>>

NextValidate == \E w \in Workers : Validate(w)

SpecValidate == InitValidate /\ [][NextValidate]_vars

\* =============================================================== claims
AtMostOneRow(table) == \A x \in BagToSet(table) : CopiesIn(x, table) = 1

C1_Step ==
    /\ \A u \in Users, pk \in RecipeIds :
        /\ (FavoritePost(u, pk) /\ BagIn(ToggleRow(u, pk), favorites))
              => /\ response'.status = HTTP_400_BAD_REQUEST
                 /\ response'.error = "already_added"
                 /\ favorites' = favorites
        /\ (ShoppingCartPost(u, pk) /\ BagIn(ToggleRow(u, pk), shopping_cart))
              => /\ response'.status = HTTP_400_BAD_REQUEST
                 /\ response'.error = "already_added"
                 /\ shopping_cart' = shopping_cart
    /\ AtMostOneRow(favorites') /\ AtMostOneRow(shopping_cart')

\* C1: for Favorite and for ShoppingCart, an add of (u, r) while the row is
\* present answers 400 "already added" and leaves the table as it was, and
\* after every request served in sequence each table holds at most one row
\* per (u, r).
C1_DuplicateAddRejected == [][C1_Step]_vars

\* A second add of a favorite has been answered while the row is in the table.
C1_Witness ==
    /\ response.op = "favorite_post"
    /\ response.status = HTTP_400_BAD_REQUEST
    /\ response.error = "already_added"
    /\ \E x \in BagToSet(favorites) : TRUE

C2_Remove(table, u, pk) ==
    IF BagIn(ToggleRow(u, pk), table)
    THEN [status |-> {HTTP_204_NO_CONTENT}, error |-> {""},
          table |-> table (-) SetToBag({ToggleRow(u, pk)})]
    ELSE [status |-> IF RecipeExists(pk) THEN {HTTP_400_BAD_REQUEST}
                     ELSE {HTTP_404_NOT_FOUND},
          error |-> {"not_in_list", "recipe_not_found"},
          table |-> table]

C2_Step ==
    \A u \in Users, pk \in RecipeIds :
        /\ FavoriteDelete(u, pk)
              => /\ response'.status \in C2_Remove(favorites, u, pk).status
                 /\ response'.error \in C2_Remove(favorites, u, pk).error
                 /\ favorites' = C2_Remove(favorites, u, pk).table
                 /\ UNCHANGED <<shopping_cart, subscriptions, recipe_vars>>
        /\ ShoppingCartDelete(u, pk)
              => /\ response'.status \in C2_Remove(shopping_cart, u, pk).status
                 /\ response'.error \in C2_Remove(shopping_cart, u, pk).error
                 /\ shopping_cart' = C2_Remove(shopping_cart, u, pk).table
                 /\ UNCHANGED <<favorites, subscriptions, recipe_vars>>

\* C2: for Favorite and for ShoppingCart, a remove of (u, r) whose row is
\* absent is refused (400 "not in the list" for a recipe that exists, 404 for
\* one that does not) and changes no row; a remove whose row is present
\* deletes that one row and answers 204.
C2_RemoveAbsentRejected == [][C2_Step]_vars

\* A remove has been refused for a recipe that exists and is not in the cart.
C2_Witness ==
    /\ response.op = "shopping_cart_delete"
    /\ response.status = HTTP_400_BAD_REQUEST
    /\ response.error = "not_in_list"
    /\ \E pk \in RecipeIds : RecipeExists(pk)

C3_Step ==
    /\ \A w \in Workers :
           (SubscribeIsValid(w) /\ tx[w].user = tx[w].target)
              => /\ tx'[w].pc = "done"
                 /\ response'.status = HTTP_400_BAD_REQUEST
                 /\ response'.error = "self_subscription"
                 /\ subscriptions' = subscriptions
    /\ \A x \in BagToSet(subscriptions') : x.user # x.author

\* C3: a subscribe request whose follower is the followed user is answered
\* 400 at validation, whatever rows the Subscription table holds, and no state
\* holds a Subscription row with user = author.
C3_SelfSubscriptionRejected == [][C3_Step]_vars

\* A self-subscription has been refused while the table held a subscription.
C3_Witness ==
    /\ response.op = "subscribe_post"
    /\ response.error = "self_subscription"
    /\ \E x \in BagToSet(subscriptions) : TRUE
    /\ \E w \in Workers : tx[w].pc = "done" /\ tx[w].op = "subscribe_post"
                          /\ tx[w].user = tx[w].target

\* C7: under every interleaving of concurrent adds of the same favorite, cart
\* entry or subscription, each table holds at most one row per pair.
C7_AtMostOneRowPerPair ==
    /\ AtMostOneRow(favorites)
    /\ AtMostOneRow(shopping_cart)
    /\ AtMostOneRow(subscriptions)

\* Two adds of one pair both passed validation; the insert of the second was
\* refused by the unique constraint and the table holds the one row.
C7_Witness ==
    /\ response.error = "IntegrityError"
    /\ \E v, w \in Workers :
          /\ v # w
          /\ tx[v].pc = "done" /\ tx[w].pc = "done"
          /\ tx[v].op = tx[w].op /\ tx[v].user = tx[w].user /\ tx[v].target = tx[w].target
          /\ tx[v].op \in {"favorite_post", "shopping_cart_post", "subscribe_post"}

\* C8: every add request (favorite, shopping cart, subscribe) ends in 201 or
\* in a 400 that carries the error; the insert that loses a race is answered
\* with such a 400.
C8_AddEndsIn201Or400 ==
    response.op \in {"favorite_post", "shopping_cart_post", "subscribe_post"}
        => response.status \in {HTTP_201_CREATED, HTTP_400_BAD_REQUEST}

\* The recipes in the cart of u.
C4_CartRecipes(u) == {pk \in RecipeIds : BagIn(ToggleRow(u, pk), shopping_cart)}

C4_Rows(u, name, unit) ==
    {x \in BagToSet(ingredient_in_recipe) :
        /\ x.recipe \in C4_CartRecipes(u)
        /\ Ingredient[x.ingredient].name = name
        /\ Ingredient[x.ingredient].measurement_unit = unit}

\* One line per (name, unit) that occurs in a cart recipe, with the sum of the
\* amounts of its IngredientInRecipe rows.
C4_Expected(u) ==
    {[name |-> Ingredient[i].name, unit |-> Ingredient[i].measurement_unit,
      amount |-> LET rows == C4_Rows(u, Ingredient[i].name, Ingredient[i].measurement_unit)
                 IN  SumOver([x \in rows |-> CopiesIn(x, ingredient_in_recipe) * x.amount],
                             rows)]
        : i \in {j \in IngredientIds :
                    C4_Rows(u, Ingredient[j].name, Ingredient[j].measurement_unit) # {}}}

C4_Step ==
    \A u \in Users :
        (DownloadShoppingCart(u) /\ C4_CartRecipes(u) # {})
            => /\ response'.status = HTTP_200_OK
               /\ Range(response'.body.lines) = C4_Expected(u)
               /\ Len(response'.body.lines) = Cardinality(C4_Expected(u))

\* C4: the shopping list of a user with a non-empty cart has exactly one line
\* per (ingredient name, measurement unit) pair of the recipes in that cart,
\* and the amount of the line is the sum of the IngredientInRecipe amounts of
\* the pair over the cart recipes.
C4_ShoppingListAggregates == [][C4_Step]_vars

\* A list has been exported with a line whose amount no single row holds: the
\* sum of one ingredient over two recipes of the cart.
C4_Witness ==
    /\ response.op = "download_shopping_cart"
    /\ response.status = HTTP_200_OK
    /\ \E i \in DOMAIN response.body.lines :
          /\ response.body.lines[i].amount > MaxAmount
          /\ \E u \in Users :
                /\ Cardinality(C4_CartRecipes(u)) >= 2
                /\ response.body.lines[i] \in C4_Expected(u)

\* C5: recipe create and update are atomic over their statements: in every
\* reachable state of concurrently served requests, a recipe that exists holds
\* none of its associations, or exactly those last accepted for it, or exactly
\* those of a request at work on it; never a part of them.
C5_AllOrNothing ==
    \A pk \in RecipeIds :
        RecipeExists(pk) =>
            \/ Persisted(pk) = NoAssociations
            \/ Persisted(pk) = accepted[pk]
            \/ \E w \in Workers :
                   /\ tx[w].pc # "start"
                   /\ tx[w].target = pk
                   /\ Persisted(pk) = Submitted(tx[w].data)

\* The number of IngredientInRecipe rows of a recipe, duplicates counted.
C6_RowCount(pk) ==
    LET rows == {x \in BagToSet(ingredient_in_recipe) : x.recipe = pk}
    IN  SumOver([x \in rows |-> CopiesIn(x, ingredient_in_recipe)], rows)

\* C6: with requests served one at a time, in the state an accepted update
\* leaves (whatever the recipe held before: the associations of its creation or
\* of an earlier update), the IngredientInRecipe rows of a recipe are exactly
\* the (ingredient, amount) pairs of the payload last accepted for it, one row
\* each, and its tags are exactly that payload's tags.
C6_FullReplaceUpdate ==
    (response.op = "recipe_update" /\ response.status = HTTP_200_OK) =>
        \A pk \in RecipeIds :
            RecipeExists(pk) =>
                /\ RecipeIngredients(pk) = accepted[pk].ingredients
                /\ C6_RowCount(pk) = Cardinality(accepted[pk].ingredients)
                /\ recipe_tags[pk] = accepted[pk].tags

\* An update was accepted for a recipe that held a tag or a row the payload
\* does not have.
C6_Witness ==
    /\ response.op = "recipe_update"
    /\ response.status = HTTP_200_OK
    /\ response.body.replaced
    /\ \E pk \in RecipeIds : RecipeExists(pk) /\ Cardinality(RecipeIngredients(pk)) = 1

C9_AllHold(data) ==
    /\ "tags" \in DOMAIN data
    /\ data.tags # <<>>
    /\ \A i, j \in DOMAIN data.tags : i # j => data.tags[i] # data.tags[j]
    /\ "ingredients" \in DOMAIN data
    /\ data.ingredients # <<>>
    /\ \A i \in DOMAIN data.ingredients : data.ingredients[i].amount >= 1
    /\ \A i \in DOMAIN data.ingredients : data.ingredients[i].id \in IngredientIds
    /\ \A i, j \in DOMAIN data.ingredients :
           i # j => data.ingredients[i].id # data.ingredients[j].id
    /\ "cooking_time" \in DOMAIN data
    /\ data.cooking_time >= 1
    /\ "image" \in DOMAIN data
    /\ data.image # None

\* C9: validate() returns the payload if and only if the tag list is non-empty
\* without a duplicate, the ingredient list is non-empty, every amount is at
\* least 1, every ingredient id has an Ingredient row, no ingredient id is
\* repeated, cooking_time is at least 1 and there is an image; otherwise it
\* raises a validation error.
C9_ValidatorAcceptsIffAllHold ==
    \A w \in Workers :
        (tx[w].pc = "done" /\ tx[w].op = "validate") =>
            ((tx[w].result = "") <=> C9_AllHold(tx[w].data))

\* validate() returned a payload of MaxLen ingredients and MaxLen tags.
C9_Witness ==
    \E w \in Workers :
        /\ tx[w].pc = "done"
        /\ tx[w].op = "validate"
        /\ tx[w].result = ""
        /\ Len(tx[w].data.ingredients) = MaxLen
        /\ Len(tx[w].data.tags) = MaxLen

\* The numbers of distinct ingredient ids of the payloads accepted for a recipe:
\* the one recorded last and those of the requests that were validated for it.
C10_AcceptedCounts(pk) ==
    {Cardinality({x[1] : x \in accepted[pk].ingredients})}
        \cup {Cardinality({x[1] : x \in Submitted(tx[w].data).ingredients}) :
                  w \in {v \in Workers : tx[v].target = pk /\ is_valid(tx[v].data, FALSE) = ""}}

\* C10: once every request has been answered, each recipe has as many
\* IngredientInRecipe rows as a payload accepted for it has distinct
\* ingredient ids.
C10_RowsMatchAccepted ==
    (\A w \in Workers : tx[w].pc = "done") =>
        \A pk \in RecipeIds :
            RecipeExists(pk) => C6_RowCount(pk) \in C10_AcceptedCounts(pk)

\* The requester is the author of the recipe or an admin.
C11_AuthorOrAdmin(u, pk) ==
    u \in Users /\ (recipes[pk].author = u \/ is_superuser(u))

C11_Refused ==
    /\ response'.status \in {HTTP_401_UNAUTHORIZED, HTTP_403_FORBIDDEN}
    /\ UNCHANGED <<recipe_vars, toggle_vars>>

C11_Step ==
    \A u \in Requesters, pk \in RecipeIds :
        (RecipeExists(pk) /\ ~C11_AuthorOrAdmin(u, pk)) =>
            /\ \A data \in AccessPayloads, partial \in BOOLEAN :
                   RecipeUpdate(u, pk, data, partial) => C11_Refused
            /\ RecipeDelete(u, pk) => C11_Refused

\* C11: a PATCH (or PUT) or DELETE of a recipe by a requester who is neither
\* its author nor an admin, an anonymous requester included, is refused with
\* 401 or 403 and leaves the recipe, its tags, its ingredient rows and the rows
\* that reference it unchanged; so such a request succeeds only for the author
\* or an admin.
C11_WriteOnlyByAuthorOrAdmin == [][C11_Step]_vars

\* A write was refused to an authenticated user who is not the author of an
\* existing recipe.
C11_Witness ==
    /\ response.op \in {"recipe_update", "recipe_delete"}
    /\ response.status = HTTP_403_FORBIDDEN
    /\ response.error = "forbidden"
    /\ \E pk \in RecipeIds : RecipeExists(pk) /\ ~is_superuser(recipes[pk].author)

\* C12: in every reachable state every IngredientInRecipe, Favorite and
\* ShoppingCart row references a recipe that exists; the delete of a recipe
\* removes the rows that reference it.
C12_NoDanglingRows ==
    \A x \in BagToSet(ingredient_in_recipe) \cup BagToSet(favorites)
                 \cup BagToSet(shopping_cart) :
        RecipeExists(x.recipe)

\* A recipe that a Favorite or ShoppingCart row referenced was deleted.
C12_Witness ==
    /\ response.op = "recipe_delete"
    /\ response.status = HTTP_204_NO_CONTENT
    /\ response.body.cascaded

C13_Row(w) == SubscriptionRow(tx[w].user, tx[w].target)

C13_Step ==
    \A w \in Workers :
        /\ (UnsubscribeFirst(w) /\ ~BagIn(C13_Row(w), subscriptions)) =>
               /\ response' = Response("subscribe_delete", HTTP_400_BAD_REQUEST,
                                       "no_subscription")
               /\ tx'[w].pc = "done"
               /\ subscriptions' = subscriptions
        /\ (UnsubscribeFirst(w) /\ BagIn(C13_Row(w), subscriptions)) =>
               /\ tx'[w].pc = "delete"
               /\ subscriptions' = subscriptions
        /\ (UnsubscribeDelete(w) /\ BagIn(C13_Row(w), subscriptions)) =>
               /\ response'.status = HTTP_204_NO_CONTENT
               /\ tx'[w].pc = "done"
               /\ subscriptions' = subscriptions (-) SetToBag({C13_Row(w)})

\* C13: an unsubscribe that finds no Subscription row (follower, followed) is
\* answered 400 and leaves the Subscription table unchanged; one that finds
\* the row deletes exactly that row and is answered 204.
C13_UnsubscribeAbsentRejected == [][C13_Step]_vars

\* An unsubscribe was answered 400 while the other user's subscription stayed.
C13_Witness ==
    /\ response.op = "subscribe_delete"
    /\ response.status = HTTP_400_BAD_REQUEST
    /\ response.error = "no_subscription"
    /\ subscriptions # EmptyBag

\* The ingredient names of the catalog in alphabetical order, and the place of
\* a name in it.
C14_Alphabetical == <<"flour", "salt">>

C14_Rank(name) == CHOOSE i \in DOMAIN C14_Alphabetical : C14_Alphabetical[i] = name

\* C14: the ingredient lines of every exported shopping list are in
\* alphabetical order of the ingredient name.
C14_LinesOrderedByName ==
    (response.op = "download_shopping_cart" /\ response.status = HTTP_200_OK) =>
        \A i, j \in DOMAIN response.body.lines :
            i < j => C14_Rank(response.body.lines[i].name)
                         <= C14_Rank(response.body.lines[j].name)

C15_Step ==
    \A u \in Users :
        DownloadShoppingCart(u) =>
            IF C4_CartRecipes(u) = {}
            THEN /\ response'.status = HTTP_400_BAD_REQUEST
                 /\ response'.body = <<>>
            ELSE /\ response'.status = HTTP_200_OK
                 /\ DOMAIN response'.body = {"lines", "footer"}

\* C15: the export for a user without a cart row is answered 400 and carries
\* no document; for a user with at least one cart row it is answered with the
\* document.
C15_EmptyCartNothingToExport == [][C15_Step]_vars

\* An export was refused for a user with an empty cart while another user had
\* a cart row.
C15_Witness ==
    /\ response.op = "download_shopping_cart"
    /\ response.status = HTTP_400_BAD_REQUEST
    /\ response.body = <<>>
    /\ shopping_cart # EmptyBag

\* C16: once two concurrent updates of one recipe, both valid and both by a
\* user who may write it, have been answered, the IngredientInRecipe rows of
\* the recipe are exactly those of one of the two payloads, and no insert
\* failed.
C16_LastWriterWins ==
    \A pk \in RecipeIds :
        (/\ RecipeExists(pk)
         /\ \A w \in Workers :
                /\ tx[w].pc = "done"
                /\ tx[w].op = "recipe_update"
                /\ tx[w].target = pk
                /\ C9_AllHold(tx[w].data)
                /\ C11_AuthorOrAdmin(tx[w].user, pk)) =>
            /\ RecipeIngredients(pk) \in
                   {IngredientSet(tx[w].data.ingredients) : w \in Workers}
            /\ response.status # HTTP_500_INTERNAL_SERVER_ERROR

\* C17: every POST or DELETE on the favorite or the shopping_cart action by an
\* authenticated user is answered 201, 204 or 400, whatever the state and the
\* recipe id, an id without a recipe included.
C17_ToggleAnswers201_204_400 ==
    response.op \in {"favorite_post", "favorite_delete", "shopping_cart_post",
                     "shopping_cart_delete"} =>
        response.status \in {HTTP_201_CREATED, HTTP_204_NO_CONTENT, HTTP_400_BAD_REQUEST}

\* C18: in every reachable state every recipe that exists has at least one
\* tag, at least one ingredient row with an amount, and one author, a user.
C18_RecipeHasTagIngredientAuthor ==
    \A pk \in RecipeIds :
        RecipeExists(pk) =>
            /\ recipe_tags[pk] # {}
            /\ \E x \in RecipeIngredients(pk) : x[2] >= 1
            /\ recipes[pk].author \in Users

C19_Step ==
    \A u \in Users, data \in AccessPayloads :
        ~C9_AllHold(data) =>
            /\ RecipeCreate(u, data) =>
                   /\ response'.status = HTTP_400_BAD_REQUEST
                   /\ UNCHANGED recipe_vars
            /\ \A pk \in RecipeIds, partial \in BOOLEAN :
                   RecipeUpdate(u, pk, data, partial) =>
                       /\ response'.status \in {HTTP_400_BAD_REQUEST, HTTP_403_FORBIDDEN,
                                                HTTP_404_NOT_FOUND}
                       /\ UNCHANGED recipe_vars

\* C19: a create or an update whose payload the validator rejects is answered
\* with an error and creates, modifies and deletes no Recipe row, no tag
\* association and no IngredientInRecipe row; an updated recipe keeps its tags
\* and ingredients.
C19_RejectedPayloadChangesNothing == [][C19_Step]_vars

\* The validator rejected the payload of an update of an existing recipe.
C19_Witness ==
    /\ response.op = "recipe_update"
    /\ response.status = HTTP_400_BAD_REQUEST
    /\ response.error \in {"no_tags", "ingredient_repeated", "no_ingredients"}
    /\ \E pk \in RecipeIds : RecipeExists(pk) /\ Persisted(pk) = accepted[pk]

\* The rows of a toggle table other than (u, pk) are the same before and after.
C20_OtherRowsUnchanged(before, after, u, pk) ==
    \A x \in BagToSet(before) \cup BagToSet(after) :
        x # ToggleRow(u, pk) => CopiesIn(x, before) = CopiesIn(x, after)

C20_Step ==
    \A u \in Users, pk \in RecipeIds :
        /\ (FavoritePost(u, pk) \/ FavoriteDelete(u, pk)) =>
               /\ C20_OtherRowsUnchanged(favorites, favorites', u, pk)
               /\ UNCHANGED <<shopping_cart, subscriptions, recipes, next_recipe_id,
                              recipe_tags, ingredient_in_recipe>>
        /\ (ShoppingCartPost(u, pk) \/ ShoppingCartDelete(u, pk)) =>
               /\ C20_OtherRowsUnchanged(shopping_cart, shopping_cart', u, pk)
               /\ UNCHANGED <<favorites, subscriptions, recipes, next_recipe_id,
                              recipe_tags, ingredient_in_recipe>>

\* C20: a favorite or shopping-cart add or remove by user u on recipe r, accepted
\* or refused, changes no row other than (u, r) of the table the action names:
\* the other rows of that table, the other toggle table, the subscriptions,
\* the recipes, their tags and their ingredient rows stay as they were.
C20_ToggleFrame == [][C20_Step]_vars

\* A favorite was removed while the Favorite table kept other rows and the
\* shopping cart held rows.
C20_Witness ==
    /\ response.op = "favorite_delete"
    /\ response.status = HTTP_204_NO_CONTENT
    /\ favorites # EmptyBag
    /\ shopping_cart # EmptyBag

C21_Step ==
    \A u \in Users, pk \in RecipeIds, data \in AccessPayloads, partial \in BOOLEAN :
        (/\ DOMAIN data # Keys
         /\ RecipeExists(pk)
         /\ C11_AuthorOrAdmin(u, pk)
         /\ RecipeUpdate(u, pk, data, partial)) =>
            /\ response'.status = HTTP_400_BAD_REQUEST
            /\ UNCHANGED recipe_vars

\* C21: an update (PUT or PATCH) by a user who may write the recipe, with a
\* payload that leaves out tags, ingredients, cooking_time or image, is
\* rejected with 400 and leaves the recipe, its tags and its ingredient rows
\* unchanged: the replace step is never reached.
C21_OmittedFieldRejected == [][C21_Step]_vars

\* A PATCH without cooking_time of an existing recipe was rejected by validate().
C21_Witness ==
    /\ response.op = "recipe_update"
    /\ response.status = HTTP_400_BAD_REQUEST
    /\ response.error = "cooking_time_below_minimum"
    /\ \E pk \in RecipeIds : RecipeExists(pk) /\ Persisted(pk) = accepted[pk]

\* What the claim lets the list of user u depend on: the recipes of u's
\* ShoppingCart rows and the IngredientInRecipe rows of those recipes.
C22_View(u) ==
    [cart |-> C4_CartRecipes(u),
     rows |-> {[row |-> x, copies |-> CopiesIn(x, ingredient_in_recipe)] :
                  x \in {y \in BagToSet(ingredient_in_recipe) :
                            y.recipe \in C4_CartRecipes(u)}}]

C22_Key(r) == <<Ingredient[r.row.ingredient].name, Ingredient[r.row.ingredient].measurement_unit>>

\* The lines of a list, computed from a view and from nothing else.
C22_ListOf(view) ==
    {[name |-> k[1], unit |-> k[2],
      amount |-> LET rows == {r \in view.rows : C22_Key(r) = k}
                 IN  SumOver([r \in rows |-> r.copies * r.row.amount], rows)]
        : k \in {C22_Key(r) : r \in view.rows}}

C22_Step ==
    \A u \in Users :
        DownloadShoppingCart(u) =>
            IF C22_View(u).cart = {}
            THEN /\ response'.status = HTTP_400_BAD_REQUEST
                 /\ response'.body = <<>>
            ELSE /\ response'.status = HTTP_200_OK
                 /\ Range(response'.body.lines) = C22_ListOf(C22_View(u))
                 /\ \A i \in DOMAIN response'.body.lines :
                        \E r \in C22_View(u).rows :
                            C22_Key(r) = <<response'.body.lines[i].name,
                                           response'.body.lines[i].unit>>

\* C22: the answer to the export of user u is a function of u's ShoppingCart
\* rows and of the IngredientInRecipe rows of the recipes in them, whatever the
\* other users' carts, the favorites and the subscriptions hold; every line of
\* it is an ingredient of a recipe of u's cart.
C22_ListDependsOnOwnCartOnly == [][C22_Step]_vars

\* A list of one line (the salt of recipe 1) was exported while another cart
\* held recipe 2, with flour, and there were favorites and subscriptions.
C22_Witness ==
    /\ response.op = "download_shopping_cart"
    /\ response.status = HTTP_200_OK
    /\ Cardinality(DOMAIN response.body.lines) = 1
    /\ \E u \in Users : BagIn(ToggleRow(u, 2), shopping_cart)
    /\ favorites # EmptyBag
    /\ subscriptions # EmptyBag

====
